---- MODULE Spec2Model ----
(***************************************************************************)
(* A model of components of js-assignments:                                *)
(*   - expandBraces, getZigZagMatrix, canDominoesMakeRow, extractRanges    *)
(*                        (src/task/10-katas-1-tasks.js)                   *)
(*   - cssSelectorBuilder (src/task/08-objects-tasks.js)                   *)
(* Strings of expandBraces are sequences of one-character strings, so that *)
(* indexing, substring, split and replace are computed as the code does.   *)
(***************************************************************************)
EXTENDS Integers, Sequences, FiniteSets, TLC

\* ------------------------------------------------------------------ bounds
\* Longest input string handed to expandBraces.
MaxLen == 7
\* Most objects (fragments and combined units) alive at once.
MaxObjs == 3
\* Most successful builder operations (facade calls, chained calls, combines)
\* while new objects can still be created.
MaxSize == 3
\* Most successful calls on a fragment that is alone in the heap.
MaxCalls == 4
\* Largest value on a domino tile handed to canDominoesMakeRow.
MaxPip == 2
\* Most tiles in a list handed to canDominoesMakeRow.
MaxTiles == 3
\* Largest integer in a list handed to extractRanges.
MaxNum == 10
\* Largest dimension handed to getZigZagMatrix.
MaxN == 7

VARIABLES
    \* expandBraces
    str,      \* the argument
    myArr,    \* the working collection
    x,        \* the scan index (0-based, as in the code)
    left,     \* index of the most recently seen '{' (0-based)
    pc,       \* "scan" | "yield" | "done" | "idle"
    yi,       \* position of the for-of iterator over myArr
    out,      \* the strings yielded so far
    \* cssSelectorBuilder
    objs,     \* the heap: every Selector and PropertyGroup created so far
    hist,     \* per object, the successful builder calls made on it, in order
    last,     \* the latest call: what was called, on what, and how it ended
    \* the other katas: the locals of one call of each function, as a record
    zig,      \* getZigZagMatrix: n, arr, x, y, z
    dom,      \* canDominoesMakeRow: dominoes, nums, result
    ext       \* extractRanges: nums, result, x

varsE == <<str, myArr, x, left, pc, yi, out>>
varsB == <<objs, hist, last>>
varsK == <<zig, dom, ext>>
vars == <<varsE, varsB, varsK>>

\* ------------------------------------------------------- string primitives
LB == "{"
RB == "}"
Comma == ","
Alphabet == {LB, RB, Comma, "a", "b"}

Min(a, b) == IF a < b THEN a ELSE b
Max(a, b) == IF a < b THEN b ELSE a

\* s[i] for a 0-based index; JS gives undefined past the end.
CharAt(s, i) == IF i >= 0 /\ i < Len(s) THEN s[i + 1] ELSE "undefined"

\* s.indexOf(c) > -1
Contains(s, c) == \E i \in 1..Len(s) : s[i] = c

\* String.prototype.substring: both indexes are clamped to [0, length] and
\* swapped when start > end.
Substring(s, start, end) ==
    LET cs == Min(Max(start, 0), Len(s))
        ce == Min(Max(end, 0), Len(s))
    IN  SubSeq(s, Min(cs, ce) + 1, Max(cs, ce))

\* String.prototype.split(','): the pieces between commas, empty pieces kept.
RECURSIVE Split(_)
Split(s) ==
    IF ~Contains(s, Comma) THEN <<s>>
    ELSE LET i == CHOOSE k \in 1..Len(s) :
                    s[k] = Comma /\ \A j \in 1..(k - 1) : s[j] # Comma
         IN  <<SubSeq(s, 1, i - 1)>> \o Split(SubSeq(s, i + 1, Len(s)))

\* The 1-based places where pat occurs in s.
Occurrences(s, pat) ==
    {p \in 1..(Len(s) - Len(pat) + 1) : SubSeq(s, p, p + Len(pat) - 1) = pat}

\* String.prototype.replace with a string pattern: the first occurrence only,
\* the string unchanged when there is none.  (The alphabet has no '$', so the
\* replacement text is always inserted literally.)
Replace(s, pat, rep) ==
    IF Occurrences(s, pat) = {} THEN s
    ELSE LET p == CHOOSE q \in Occurrences(s, pat) :
                    \A r \in Occurrences(s, pat) : q <= r
         IN  SubSeq(s, 1, p - 1) \o rep \o SubSeq(s, p + Len(pat), Len(s))

\* Array.prototype.indexOf(v) == -1
NotIn(arr, v) == \A i \in 1..Len(arr) : arr[i] # v

\* Every produced string pushed, the indexOf test left out.
PushNew_All(arr, completed) == arr \o completed

\* completed.map(x => { if (myArr.indexOf(x) == -1) myArr.push(x) })
RECURSIVE PushNew(_, _)
PushNew(arr, completed) ==
    IF completed = <<>> THEN arr
    ELSE PushNew(IF NotIn(arr, Head(completed)) THEN Append(arr, Head(completed))
                 ELSE arr,
                 Tail(completed))

\* The strings parse() builds from the first candidate, one per alternative.
Completed(arr, string) ==
    LET alts == Split(string)
    IN  [k \in 1..Len(alts) |-> Replace(arr[1], <<LB>> \o string \o <<RB>>, alts[k])]

\* parse(string): the working collection after the call.
Parse(arr, string) == PushNew(Tail(arr), Completed(arr, string))

\* ---------------------------------------------------------------- inputs
\* Depth of open braces after each prefix never negative, zero at the end.
RECURSIVE Depth(_)
Depth(s) ==
    IF s = <<>> THEN 0
    ELSE LET d == Depth(SubSeq(s, 1, Len(s) - 1))
             c == s[Len(s)]
         IN  IF d < 0 THEN -1
             ELSE IF c = LB THEN d + 1
             ELSE IF c = RB THEN d - 1
             ELSE d

Balanced(s) == Depth(s) = 0

StringsUpTo(n) == UNION {[1..k -> Alphabet] : k \in 0..n}

Inputs == {s \in StringsUpTo(MaxLen) : Balanced(s)}

\* --------------------------------------------- the two components at rest
\* The record of a call.  arg is the value of a call that succeeded (a call
\* that throws leaves nothing of its argument behind), a and b the operands
\* of combine, ret the string stringify returned.
Call(via, op, obj, arg, a, b, result, ret) ==
    [via |-> via, op |-> op, obj |-> obj, arg |-> arg, a |-> a, b |-> b,
     result |-> result, ret |-> ret]

\* No builder call made yet.
IdleB ==
    /\ objs = <<>>
    /\ hist = <<>>
    /\ last = Call("none", "none", 0, "", 0, 0, "ok", "")

\* expandBraces not called.
IdleE ==
    /\ str = <<>>
    /\ myArr = <<>>
    /\ x = 0
    /\ left = 0
    /\ pc = "idle"
    /\ yi = 1
    /\ out = <<>>

\* None of the other katas called.
IdleK ==
    /\ zig = [pc |-> "idle"]
    /\ dom = [pc |-> "idle"]
    /\ ext = [pc |-> "idle"]

\* ------------------------------------------------------------ expandBraces
InitE ==
    /\ str \in Inputs
    /\ myArr = <<str>>
    /\ x = 0
    /\ left = 0
    /\ pc = "scan"
    /\ yi = 1
    /\ out = <<>>
    /\ IdleB
    /\ IdleK

\* One turn of the for loop: the condition, the body and x++.
\* Once x is past the end of every candidate no character is ever read again,
\* so x is kept at MaxLen + 1 from there on.
ScanStep ==
    /\ pc = "scan"
    /\ Contains(myArr[1], LB)
    /\ LET c == CharAt(myArr[1], x)
           l == IF c = LB THEN x ELSE left
       IN  /\ left' = l
           /\ IF c = RB
              THEN /\ myArr' = Parse(myArr, Substring(myArr[1], l + 1, x))
                   /\ x' = 1
              ELSE /\ myArr' = myArr
                   /\ x' = Min(x + 1, MaxLen + 1)
    /\ UNCHANGED <<str, pc, yi, out, varsB, varsK>>

\* The loop condition fails: control reaches the for-of loop.
ScanExit ==
    /\ pc = "scan"
    /\ ~Contains(myArr[1], LB)
    /\ pc' = "yield"
    /\ UNCHANGED <<str, myArr, x, left, yi, out, varsB, varsK>>

\* A for-in loop in place of for-of: the keys are yielded, not the strings.
Yield_ForIn ==
    /\ pc = "yield"
    /\ yi <= Len(myArr)
    /\ out' = Append(out, <<"key">>)
    /\ yi' = yi + 1
    /\ UNCHANGED <<str, myArr, x, left, pc, varsB, varsK>>

\* for (let x of myArr) yield x;
Yield ==
    /\ pc = "yield"
    /\ yi <= Len(myArr)
    /\ out' = Append(out, myArr[yi])
    /\ yi' = yi + 1
    /\ UNCHANGED <<str, myArr, x, left, pc, varsB, varsK>>

YieldEnd ==
    /\ pc = "yield"
    /\ yi > Len(myArr)
    /\ pc' = "done"
    /\ UNCHANGED <<str, myArr, x, left, yi, out, varsB, varsK>>

NextE == ScanStep \/ ScanExit \/ Yield \/ YieldEnd

SpecExpand == InitE /\ [][NextE]_vars

\* ------------------------------------------------- reference brace expansion
\* Position of the '}' closing the '{' at s[1].
MatchingBrace(s) ==
    CHOOSE m \in 2..Len(s) :
        /\ Depth(SubSeq(s, 1, m)) = 0
        /\ \A j \in 1..(m - 1) : Depth(SubSeq(s, 1, j)) > 0

\* The pieces of s between the commas that are outside every nested group.
RECURSIVE SplitTop(_)
SplitTop(s) ==
    LET tops == {k \in 1..Len(s) : s[k] = Comma /\ Depth(SubSeq(s, 1, k)) = 0}
    IN  IF tops = {} THEN <<s>>
        ELSE LET i == CHOOSE k \in tops : \A j \in tops : k <= j
             IN  <<SubSeq(s, 1, i - 1)>> \o SplitTop(SubSeq(s, i + 1, Len(s)))

\* The set of strings a balanced s stands for: one alternative of every group,
\* the text outside groups kept.
RECURSIVE Expansions(_)
Expansions(s) ==
    IF s = <<>> THEN {<<>>}
    ELSE IF s[1] # LB
    THEN {<<s[1]>> \o t : t \in Expansions(Tail(s))}
    ELSE LET m == MatchingBrace(s)
             alts == SplitTop(SubSeq(s, 2, m - 1))
             heads == UNION {Expansions(alts[k]) : k \in 1..Len(alts)}
         IN  {h \o t : h \in heads, t \in Expansions(SubSeq(s, m + 1, Len(s)))}

Range(f) == {f[i] : i \in DOMAIN f}

NoBraces(s) == ~Contains(s, LB) /\ ~Contains(s, RB)

\* ------------------------------------------------------ expandBraces: claims
\* C1: for every balanced input, the strings yielded are exactly the
\* expansions of the input (one alternative of every group, nested groups
\* included, outside text kept): none has a brace, none is missing.
C1_YieldsExpansions == pc = "done" => Range(out) = Expansions(str)

\* C2: for every balanced input the scan loop terminates.  The loop is
\* deterministic, so a turn that leads back to the state it started from
\* repeats for ever: while the loop runs, its next turn must change the state.
C2_ScanTerminates ==
    (pc = "scan" /\ Contains(myArr[1], LB)) => ENABLED <<ScanStep>>_vars

\* C10: an input with neither '{' nor '}' is yielded unchanged, and is the
\* only string yielded.
C10_NoBracesIdentity == (pc = "done" /\ NoBraces(str)) => out = <<str>>

\* An input with text and a comma but no brace has been expanded to itself.
C10_Witness ==
    /\ pc = "done"
    /\ NoBraces(str)
    /\ Contains(str, Comma)
    /\ Contains(str, "a")
    /\ out = <<str>>

\* ------------------------------------------------------ cssSelectorBuilder
\* Values handed to the builder methods, and the combinator tokens.
Tokens == {"", "a", "b"}
Combinators == {" ", "+"}

\* A field that was never assigned reads undefined: <<>>.  A string field that
\* was assigned holds <<value>>; an array field holds its elements.
Undefined == <<>>

err_E == "Element, id and pseudo-element should not occur more then one time inside the selector"
err_S == "Selector parts should be arranged in the following order: element, id, class, attribute, pseudo-class, pseudo-element"

SetterOps == {"element", "id", "class", "attr", "pseudoClass", "pseudoElement"}

\* if (this.xName) for a string field: undefined and '' are falsy.
TruthyStr(f) == f # Undefined /\ f[1] # ""
\* if (this.xName) for an array field: every array is truthy.
TruthyArr(f) == f # Undefined

\* An object with no own field, as `this` is when the constructor starts.
EmptySelector ==
    [kind |-> "Selector", elementName |-> Undefined, idName |-> Undefined,
     className |-> Undefined, attrName |-> Undefined,
     pseudoClassName |-> Undefined, pseudoElementName |-> Undefined]

InitialState(propName, propValue) == [propName |-> propName, propValue |-> propValue]

\* this[initialState.propName + "Name"] = initialState.propValue
Selector(initialState) ==
    CASE initialState.propName = "element" ->
            [EmptySelector EXCEPT !.elementName = initialState.propValue]
      [] initialState.propName = "id" ->
            [EmptySelector EXCEPT !.idName = initialState.propValue]
      [] initialState.propName = "class" ->
            [EmptySelector EXCEPT !.className = initialState.propValue]
      [] initialState.propName = "attr" ->
            [EmptySelector EXCEPT !.attrName = initialState.propValue]
      [] initialState.propName = "pseudoClass" ->
            [EmptySelector EXCEPT !.pseudoClassName = initialState.propValue]
      [] initialState.propName = "pseudoElement" ->
            [EmptySelector EXCEPT !.pseudoElementName = initialState.propValue]

PropertyGroup(value) == [kind |-> "PropertyGroup", data |-> value]

\* What a method call gives: the object afterwards and how the call ended.
Returned(o) == [obj |-> o, result |-> "ok"]
Thrown(o, e) == [obj |-> o, result |-> e]

\* arr.push(value) / this.xName = [value]
Pushed(f, value) == IF ~TruthyArr(f) THEN <<value>> ELSE Append(f, value)

\* The order test made before the duplicate test.
selectorPrototype_element_OrderFirst(this, value) ==
    IF \/ TruthyStr(this.idName) \/ TruthyArr(this.className)
       \/ TruthyArr(this.attrName) \/ TruthyArr(this.pseudoClassName)
       \/ TruthyStr(this.pseudoElementName)
    THEN Thrown(this, err_S)
    ELSE IF TruthyStr(this.elementName) THEN Thrown(this, err_E)
    ELSE Returned([this EXCEPT !.elementName = <<value>>])

selectorPrototype_element(this, value) ==
    IF TruthyStr(this.elementName) THEN Thrown(this, err_E)
    ELSE IF \/ TruthyStr(this.idName) \/ TruthyArr(this.className)
            \/ TruthyArr(this.attrName) \/ TruthyArr(this.pseudoClassName)
            \/ TruthyStr(this.pseudoElementName)
    THEN Thrown(this, err_S)
    ELSE Returned([this EXCEPT !.elementName = <<value>>])

\* The id assigned before the order test is made.
selectorPrototype_id_AssignFirst(this, value) ==
    IF TruthyStr(this.idName) THEN Thrown(this, err_E)
    ELSE IF \/ TruthyArr(this.className) \/ TruthyArr(this.attrName)
            \/ TruthyArr(this.pseudoClassName) \/ TruthyStr(this.pseudoElementName)
    THEN Thrown([this EXCEPT !.idName = <<value>>], err_S)
    ELSE Returned([this EXCEPT !.idName = <<value>>])

selectorPrototype_id(this, value) ==
    IF TruthyStr(this.idName) THEN Thrown(this, err_E)
    ELSE IF \/ TruthyArr(this.className) \/ TruthyArr(this.attrName)
            \/ TruthyArr(this.pseudoClassName) \/ TruthyStr(this.pseudoElementName)
    THEN Thrown(this, err_S)
    ELSE Returned([this EXCEPT !.idName = <<value>>])

\* The attribute test left out of class().
selectorPrototype_class_NoAttrTest(this, value) ==
    IF TruthyArr(this.pseudoClassName) \/ TruthyStr(this.pseudoElementName)
    THEN Thrown(this, err_S)
    ELSE Returned([this EXCEPT !.className = Pushed(this.className, value)])

selectorPrototype_class(this, value) ==
    IF \/ TruthyArr(this.attrName) \/ TruthyArr(this.pseudoClassName)
       \/ TruthyStr(this.pseudoElementName)
    THEN Thrown(this, err_S)
    ELSE Returned([this EXCEPT !.className = Pushed(this.className, value)])

selectorPrototype_attr(this, value) ==
    IF TruthyArr(this.pseudoClassName) \/ TruthyStr(this.pseudoElementName)
    THEN Thrown(this, err_S)
    ELSE Returned([this EXCEPT !.attrName = Pushed(this.attrName, value)])

selectorPrototype_pseudoClass(this, value) ==
    IF TruthyStr(this.pseudoElementName) THEN Thrown(this, err_S)
    ELSE Returned([this EXCEPT !.pseudoClassName = Pushed(this.pseudoClassName, value)])

selectorPrototype_pseudoElement(this, value) ==
    IF TruthyStr(this.pseudoElementName) THEN Thrown(this, err_E)
    ELSE Returned([this EXCEPT !.pseudoElementName = <<value>>])

\* Array.prototype.join(sep)
RECURSIVE Join(_, _)
Join(arr, sep) ==
    IF arr = <<>> THEN ""
    ELSE IF Len(arr) = 1 THEN arr[1]
    ELSE arr[1] \o sep \o Join(Tail(arr), sep)

\* The pseudo-classes written before the attributes.
selectorPrototype_stringify_Swapped(this) ==
    (IF TruthyStr(this.elementName) THEN this.elementName[1] ELSE "") \o
    (IF TruthyStr(this.idName) THEN "#" \o this.idName[1] ELSE "") \o
    (IF TruthyArr(this.className) THEN "." \o Join(this.className, ".") ELSE "") \o
    (IF TruthyArr(this.pseudoClassName) THEN ":" \o Join(this.pseudoClassName, ":") ELSE "") \o
    (IF TruthyArr(this.attrName) THEN "[" \o Join(this.attrName, ",") \o "]" ELSE "") \o
    (IF TruthyStr(this.pseudoElementName) THEN "::" \o this.pseudoElementName[1] ELSE "")

selectorPrototype_stringify(this) ==
    (IF TruthyStr(this.elementName) THEN this.elementName[1] ELSE "") \o
    (IF TruthyStr(this.idName) THEN "#" \o this.idName[1] ELSE "") \o
    (IF TruthyArr(this.className) THEN "." \o Join(this.className, ".") ELSE "") \o
    (IF TruthyArr(this.attrName) THEN "[" \o Join(this.attrName, ",") \o "]" ELSE "") \o
    (IF TruthyArr(this.pseudoClassName) THEN ":" \o Join(this.pseudoClassName, ":") ELSE "") \o
    (IF TruthyStr(this.pseudoElementName) THEN "::" \o this.pseudoElementName[1] ELSE "")

\* stringify() of a combined unit putting its text in parentheses.
PropertyGroup_stringify_Wrapped(this) == "(" \o this.data \o ")"

PropertyGroup_stringify(this) == this.data

\* o.stringify(): the method the object has.
Stringify(o) ==
    IF o.kind = "PropertyGroup" THEN PropertyGroup_stringify(o)
    ELSE selectorPrototype_stringify(o)

\* The facade: each method builds a new Selector from a new InitialState.
cssSelectorBuilder_element(value) == Selector(InitialState("element", <<value>>))
cssSelectorBuilder_id(value) == Selector(InitialState("id", <<value>>))
cssSelectorBuilder_class(value) == Selector(InitialState("class", <<value>>))
cssSelectorBuilder_attr(value) == Selector(InitialState("attr", <<value>>))
cssSelectorBuilder_pseudoClass(value) == Selector(InitialState("pseudoClass", <<value>>))
cssSelectorBuilder_pseudoElement(value) == Selector(InitialState("pseudoElement", <<value>>))

\* The template without the blanks around the combinator.
cssSelectorBuilder_combine_NoBlanks(selector1, combinator, selector2) ==
    PropertyGroup(Stringify(selector1) \o combinator \o Stringify(selector2))

cssSelectorBuilder_combine(selector1, combinator, selector2) ==
    PropertyGroup(Stringify(selector1) \o " " \o combinator \o " " \o Stringify(selector2))

\* ------------------------------------------------- builder calls as actions
\* An assignment to a field of `this` changes the receiver and nothing else.
\* The fields kept in one place shared by every fragment.
Store_Shared(os, i, o) ==
    [j \in DOMAIN os |-> IF os[j].kind = "Selector" THEN o ELSE os[j]]

\* Combined units that render when asked, not when built: an assignment to a
\* fragment shows in the text of the units.
Store_Rerender(os, i, o) ==
    [j \in DOMAIN os |->
        IF j = i THEN o
        ELSE IF os[j].kind = "PropertyGroup" THEN PropertyGroup(Stringify(o))
        ELSE os[j]]

Store(os, i, o) == [os EXCEPT ![i] = o]

RECURSIVE SumLen(_)
SumLen(h) == IF h = <<>> THEN 0 ELSE Len(Head(h)) + SumLen(Tail(h))

\* Successful operations so far: a fragment counts its calls, a combined unit 1.
Size == SumLen(hist) + Cardinality({i \in 1..Len(objs) : objs[i].kind = "PropertyGroup"})

\* A chained call may still succeed.
Room == Size < MaxSize \/ (Len(objs) = 1 /\ Len(hist[1]) < MaxCalls)

\* cssSelectorBuilder.<op>(value): a new fragment enters the heap.
Facade(op, fragment, value) ==
    /\ Len(objs) < MaxObjs
    /\ Size < MaxSize
    /\ objs' = Append(objs, fragment)
    /\ hist' = Append(hist, <<[op |-> op, arg |-> value]>>)
    /\ last' = Call("facade", op, Len(objs) + 1, value, 0, 0, "ok", "")
    /\ UNCHANGED <<varsE, varsK>>

\* fragment.<op>(value) on object i, where r is what the method gives on a
\* Selector.  A PropertyGroup has no such method: the call is a TypeError.
Chained(op, i, value, r) ==
    /\ IF objs[i].kind = "Selector"
       THEN /\ r.result = "ok" => Room
            /\ objs' = Store(objs, i, r.obj)
            /\ hist' = IF r.result = "ok"
                       THEN [hist EXCEPT ![i] = Append(@, [op |-> op, arg |-> value])]
                       ELSE hist
            /\ last' = IF r.result = "ok"
                       THEN Call("chain", op, i, value, 0, 0, "ok", "")
                       ELSE Call("chain", op, i, "", 0, 0, r.result, "")
       ELSE /\ UNCHANGED <<objs, hist>>
            /\ last' = Call("chain", op, i, "", 0, 0, "TypeError", "")
    /\ UNCHANGED <<varsE, varsK>>

Builder_element == \E v \in Tokens : Facade("element", cssSelectorBuilder_element(v), v)
Builder_id == \E v \in Tokens : Facade("id", cssSelectorBuilder_id(v), v)
Builder_class == \E v \in Tokens : Facade("class", cssSelectorBuilder_class(v), v)
Builder_attr == \E v \in Tokens : Facade("attr", cssSelectorBuilder_attr(v), v)
Builder_pseudoClass ==
    \E v \in Tokens : Facade("pseudoClass", cssSelectorBuilder_pseudoClass(v), v)
Builder_pseudoElement ==
    \E v \in Tokens : Facade("pseudoElement", cssSelectorBuilder_pseudoElement(v), v)

Call_element ==
    \E i \in 1..Len(objs), v \in Tokens :
        Chained("element", i, v, selectorPrototype_element(objs[i], v))
Call_id ==
    \E i \in 1..Len(objs), v \in Tokens :
        Chained("id", i, v, selectorPrototype_id(objs[i], v))
Call_class ==
    \E i \in 1..Len(objs), v \in Tokens :
        Chained("class", i, v, selectorPrototype_class(objs[i], v))
Call_attr ==
    \E i \in 1..Len(objs), v \in Tokens :
        Chained("attr", i, v, selectorPrototype_attr(objs[i], v))
Call_pseudoClass ==
    \E i \in 1..Len(objs), v \in Tokens :
        Chained("pseudoClass", i, v, selectorPrototype_pseudoClass(objs[i], v))
Call_pseudoElement ==
    \E i \in 1..Len(objs), v \in Tokens :
        Chained("pseudoElement", i, v, selectorPrototype_pseudoElement(objs[i], v))

\* obj.stringify()
Call_stringify ==
    \E i \in 1..Len(objs) :
        /\ last' = Call("stringify", "stringify", i, "", 0, 0, "ok", Stringify(objs[i]))
        /\ UNCHANGED <<objs, hist, varsE, varsK>>

\* combine() turning its first operand into the combined unit.
Builder_combine_InPlace ==
    \E i \in 1..Len(objs), j \in 1..Len(objs), t \in Combinators :
        /\ Size < MaxSize
        /\ objs' = Store(objs, i, cssSelectorBuilder_combine(objs[i], t, objs[j]))
        /\ hist' = [hist EXCEPT ![i] = <<>>]
        /\ last' = Call("combine", "combine", i, t, i, j, "ok", "")
        /\ UNCHANGED <<varsE, varsK>>

\* cssSelectorBuilder.combine(selector1, combinator, selector2)
Builder_combine ==
    \E i \in 1..Len(objs), j \in 1..Len(objs), t \in Combinators :
        /\ Len(objs) < MaxObjs
        /\ Size < MaxSize
        /\ objs' = Append(objs, cssSelectorBuilder_combine(objs[i], t, objs[j]))
        /\ hist' = Append(hist, <<>>)
        /\ last' = Call("combine", "combine", Len(objs) + 1, t, i, j, "ok", "")
        /\ UNCHANGED <<varsE, varsK>>

InitB == IdleE /\ IdleB /\ IdleK

NextB ==
    \/ Builder_element \/ Builder_id \/ Builder_class
    \/ Builder_attr \/ Builder_pseudoClass \/ Builder_pseudoElement
    \/ Call_element \/ Call_id \/ Call_class
    \/ Call_attr \/ Call_pseudoClass \/ Call_pseudoElement
    \/ Call_stringify \/ Builder_combine

SpecSelector == InitB /\ [][NextB]_vars

\* The life of one fragment: one facade call, then calls chained on it.
NextF ==
    \/ (objs = <<>> /\ Builder_element) \/ (objs = <<>> /\ Builder_id)
    \/ (objs = <<>> /\ Builder_class) \/ (objs = <<>> /\ Builder_attr)
    \/ (objs = <<>> /\ Builder_pseudoClass) \/ (objs = <<>> /\ Builder_pseudoElement)
    \/ Call_element \/ Call_id \/ Call_class
    \/ Call_attr \/ Call_pseudoClass \/ Call_pseudoElement
    \/ Call_stringify

SpecFragment == InitB /\ [][NextF]_vars

\* --------------------------------------------------- selector builder: claims
Fragments == {i \in 1..Len(objs) : objs[i].kind = "Selector"}
Groups == {i \in 1..Len(objs) : objs[i].kind = "PropertyGroup"}
NonEmptyTokens == Tokens \ {""}
Singletons == {"element", "id", "pseudoElement"}

\* The fixed category order.
Cat(op) ==
    CASE op = "element" -> 1
      [] op = "id" -> 2
      [] op = "class" -> 3
      [] op = "attr" -> 4
      [] op = "pseudoClass" -> 5
      [] op = "pseudoElement" -> 6

\* fragment.<op>(value)
Method(op, this, value) ==
    CASE op = "element" -> selectorPrototype_element(this, value)
      [] op = "id" -> selectorPrototype_id(this, value)
      [] op = "class" -> selectorPrototype_class(this, value)
      [] op = "attr" -> selectorPrototype_attr(this, value)
      [] op = "pseudoClass" -> selectorPrototype_pseudoClass(this, value)
      [] op = "pseudoElement" -> selectorPrototype_pseudoElement(this, value)

\* Every call that built the fragment was given a non-empty token.
NonEmptyCalls(h) == \A k \in 1..Len(h) : h[k].arg # ""

\* The tokens the successful <op> calls of a history were given, in call order.
RECURSIVE Vals(_, _)
Vals(h, op) ==
    IF h = <<>> THEN <<>>
    ELSE (IF Head(h).op = op THEN <<Head(h).arg>> ELSE <<>>) \o Vals(Tail(h), op)

\* Some call of a strictly later category has succeeded on the fragment.
LaterSet(h, op) == \E k \in 1..Len(h) : Cat(h[k].op) > Cat(op)

\* C3: on a fragment built with non-empty tokens, element, id or pseudoElement
\* called when that field was already set (by the facade call or a chained
\* call) throws the duplicate error, whatever else is set, and leaves the
\* fragment as it was; so each of the three is set at most once.
C3_DuplicateThrows ==
    \A i \in Fragments :
        NonEmptyCalls(hist[i]) =>
            \A op \in Singletons :
                /\ Len(Vals(hist[i], op)) <= 1
                /\ Vals(hist[i], op) # <<>> =>
                       \A v \in NonEmptyTokens :
                           Method(op, objs[i], v) = Thrown(objs[i], err_E)

\* element() has just thrown the duplicate error on a fragment that has its
\* element and a class set.
C3_Witness ==
    /\ last.via = "chain"
    /\ last.op = "element"
    /\ last.result = err_E
    /\ NonEmptyCalls(hist[last.obj])
    /\ Vals(hist[last.obj], "element") # <<>>
    /\ Vals(hist[last.obj], "class") # <<>>

\* The fragment after a successful <op>(v): the field set, or the value
\* appended to the list; every other field as before.
AfterCall(o, op, v) ==
    [kind |-> "Selector",
     elementName |-> IF op = "element" THEN <<v>> ELSE o.elementName,
     idName |-> IF op = "id" THEN <<v>> ELSE o.idName,
     className |-> IF op = "class" THEN Append(o.className, v) ELSE o.className,
     attrName |-> IF op = "attr" THEN Append(o.attrName, v) ELSE o.attrName,
     pseudoClassName |-> IF op = "pseudoClass" THEN Append(o.pseudoClassName, v)
                         ELSE o.pseudoClassName,
     pseudoElementName |-> IF op = "pseudoElement" THEN <<v>> ELSE o.pseudoElementName]

\* C4: on a fragment built with non-empty tokens, a setter call that is not a
\* duplicate of a set singleton throws the out-of-order error exactly when a
\* field of a strictly later category is set; otherwise it succeeds and sets
\* or appends the value.  So the successful calls on a fragment are in
\* non-decreasing category order.
C4_OrderRule ==
    \A i \in Fragments :
        NonEmptyCalls(hist[i]) =>
            /\ \A j \in 1..Len(hist[i]), k \in 1..Len(hist[i]) :
                   j < k => Cat(hist[i][j].op) <= Cat(hist[i][k].op)
            /\ \A op \in SetterOps, v \in NonEmptyTokens :
                   ~(op \in Singletons /\ Vals(hist[i], op) # <<>>) =>
                       Method(op, objs[i], v) =
                           IF LaterSet(hist[i], op) THEN Thrown(objs[i], err_S)
                           ELSE Returned(AfterCall(objs[i], op, v))

\* id() has just thrown the out-of-order error on a fragment with a class and
\* no id, and class() has succeeded twice before.
C4_Witness ==
    /\ last.via = "chain"
    /\ last.op = "id"
    /\ last.result = err_S
    /\ NonEmptyCalls(hist[last.obj])
    /\ Vals(hist[last.obj], "id") = <<>>
    /\ Len(Vals(hist[last.obj], "class")) = 2

\* The rendering the calls made on a fragment stand for, category by category.
ExpectedRender(h) ==
    (IF Vals(h, "element") # <<>> THEN Vals(h, "element")[1] ELSE "") \o
    (IF Vals(h, "id") # <<>> THEN "#" \o Vals(h, "id")[1] ELSE "") \o
    (IF Vals(h, "class") # <<>> THEN "." \o Join(Vals(h, "class"), ".") ELSE "") \o
    (IF Vals(h, "attr") # <<>> THEN "[" \o Join(Vals(h, "attr"), ",") \o "]" ELSE "") \o
    (IF Vals(h, "pseudoClass") # <<>> THEN ":" \o Join(Vals(h, "pseudoClass"), ":") ELSE "") \o
    (IF Vals(h, "pseudoElement") # <<>> THEN "::" \o Vals(h, "pseudoElement")[1] ELSE "")

C6_CombineFormat ==
    [][/\ (last'.via = "combine" /\ Len(objs') = Len(objs) + 1) =>
              /\ objs'[Len(objs')].kind = "PropertyGroup"
              /\ Stringify(objs'[Len(objs')]) =
                     Stringify(objs[last'.a]) \o " " \o last'.arg \o " "
                         \o Stringify(objs[last'.b])
       /\ (last'.via = "chain" /\ last'.obj \in Groups) =>
              /\ last'.result = "TypeError"
              /\ objs' = objs
      ]_vars

\* A combined unit and a fragment have just been combined with the ' '
\* combinator: three blanks stand between the two renderings.
C6_Witness ==
    /\ last.via = "combine"
    /\ last.arg = " "
    /\ last.a \in Groups
    /\ last.b \in Fragments
    /\ objs[last.obj].data = objs[last.a].data \o "   " \o Stringify(objs[last.b])

\* C7: combination nests associatively: combine(combine(a,t,b),u,c) and
\* combine(a,t,combine(b,u,c)) render alike, as the renderings of a, b, c
\* joined by ' t ' and ' u '.  a, b, c are the units of the heap a combine call
\* has just left: fragments and combined units.
C7_CombineAssociative ==
    last.via = "combine" =>
        \A a \in Range(objs), b \in Range(objs), c \in Range(objs) :
            \A t \in Combinators, u \in Combinators :
                LET l == cssSelectorBuilder_combine(
                             cssSelectorBuilder_combine(a, t, b), u, c)
                    r == cssSelectorBuilder_combine(
                             a, t, cssSelectorBuilder_combine(b, u, c))
                IN  /\ Stringify(l) = Stringify(r)
                    /\ Stringify(l) =
                           Stringify(a) \o " " \o t \o " " \o Stringify(b) \o " " \o u
                               \o " " \o Stringify(c)

\* A fragment has just been combined with a combined unit on its right, with
\* two different combinators.
C7_Witness ==
    /\ last.via = "combine"
    /\ last.a \in Fragments
    /\ last.b \in Groups
    /\ \E t \in Combinators :
           /\ t # last.arg
           /\ objs[last.obj].data =
                  Stringify(objs[last.a]) \o " " \o last.arg \o " "
                      \o Stringify(objs[last.a]) \o " " \o t \o " "
                      \o Stringify(objs[last.a])

\* C8 (as stated): once stringify has been called on a fragment or a combined
\* unit, no operation changes the string stringify returns for that object.
\* Stated of the operation that follows the stringify call.
C8_FrozenOnceRendered ==
    [][last.via = "stringify" =>
           Stringify(objs'[last.obj]) = Stringify(objs[last.obj])]_vars

\* C8 (amended): a combined unit never changes.  A fragment, and so the
\* string it renders to, changes only by a successful setter call on that very
\* fragment; stringify, combine, failed calls and calls on other objects
\* leave it as it is.
C8_OnlySettersChangeRendering ==
    [][/\ Len(objs') >= Len(objs)
       /\ \A j \in 1..Len(objs) :
              /\ j \in Groups => objs'[j] = objs[j]
              /\ objs'[j] # objs[j] =>
                     /\ j \in Fragments
                     /\ last'.via = "chain"
                     /\ last'.obj = j
                     /\ last'.result = "ok"
      ]_vars

\* A fragment was rendered into a combined unit and then given a class: the
\* fragment now renders differently, the combined unit as before.
C8_Witness ==
    /\ last.via = "chain"
    /\ last.op = "class"
    /\ last.result = "ok"
    /\ Stringify(objs[last.obj]) = "#a.b"
    /\ \E g \in Groups : Stringify(objs[g]) = "#a + #a"

\* A fragment with the one field the facade call gave it.
OnlyField(op, v) ==
    AfterCall([kind |-> "Selector", elementName |-> <<>>, idName |-> <<>>,
               className |-> <<>>, attrName |-> <<>>, pseudoClassName |-> <<>>,
               pseudoElementName |-> <<>>], op, v)

\* C9: a facade call returns a new fragment holding the one field given,
\* whatever was built before; and no call, successful or failing, changes an
\* object other than the one it is made on.
C9_FreshAndIndependent ==
    [][/\ Len(objs') >= Len(objs)
       /\ \A j \in 1..Len(objs) : j # last'.obj => objs'[j] = objs[j]
       /\ (last'.via = "facade" /\ Len(objs') = Len(objs) + 1) =>
              /\ last'.obj = Len(objs')
              /\ objs'[Len(objs')] = OnlyField(last'.op, last'.arg)
      ]_vars

\* Two fragments of two facade calls: the first has had a chained call, then
\* a call on the second has thrown.
C9_Witness ==
    /\ Len(objs) = 2
    /\ Fragments = {1, 2}
    /\ Len(hist[1]) = 2
    /\ last.via = "chain"
    /\ last.obj = 2
    /\ last.result = err_E

\* ------------------------------------------------------ canDominoesMakeRow
\* The tile values of the inputs are 0..MaxPip (at most 6, the largest value of
\* a domino tile); a list has 1..MaxTiles tiles.
Tiles == {<<a, b>> : a \in 0..MaxPip, b \in 0..MaxPip}
TileLists == UNION {[1..k -> Tiles] : k \in 1..MaxTiles}

\* Array.from({length: 7}, () => 0)
ZeroNums == [k \in 0..6 |-> 0]

InitD ==
    /\ dom \in {[pc |-> "map", dominoes |-> d, nums |-> ZeroNums, result |-> 3,
                 index |-> 0, x |-> 7, ret |-> FALSE] : d \in TileLists}
    /\ zig = [pc |-> "idle"]
    /\ ext = [pc |-> "idle"]
    /\ IdleE
    /\ IdleB

\* dominoes.some((y, index2) => index != index2 && (y[0] == x[0] || y[1] == x[0]))
SomeOther(dominoes, index) ==
    \E index2 \in 0..(Len(dominoes) - 1) :
        /\ index # index2
        /\ \/ dominoes[index2 + 1][1] = dominoes[index + 1][1]
           \/ dominoes[index2 + 1][2] = dominoes[index + 1][1]

\* x.map((x) => nums[x]++): the two values of the tile counted one after the
\* other.
Counted(nums, tile) ==
    LET first == [nums EXCEPT ![tile[1]] = @ + 1]
    IN  [first EXCEPT ![tile[2]] = @ + 1]

\* One call of the callback of dominoes.map.
MapStep ==
    /\ dom.pc = "map"
    /\ dom.index < Len(dom.dominoes)
    /\ LET tile == dom.dominoes[dom.index + 1]
       IN  IF tile[1] = tile[2] /\ ~SomeOther(dom.dominoes, dom.index)
           THEN dom' = [dom EXCEPT !.result = @ - 1, !.index = @ + 1]
           ELSE dom' = [dom EXCEPT !.nums = Counted(@, tile), !.index = @ + 1]
    /\ UNCHANGED <<varsE, varsB, zig, ext>>

\* map() is over: the for loop starts with x = nums.length.
MapEnd ==
    /\ dom.pc = "map"
    /\ dom.index = Len(dom.dominoes)
    /\ dom' = [dom EXCEPT !.pc = "count", !.x = 7]
    /\ UNCHANGED <<varsE, varsB, zig, ext>>

\* for (let x = nums.length; x--;): the test reads x, then x is decremented
\* and the body runs with the new x.
CountStep ==
    /\ dom.pc = "count"
    /\ dom.x # 0
    /\ LET nx == dom.x - 1
       IN  dom' = [dom EXCEPT !.x = nx,
                              !.result = IF dom.nums[nx] % 2 # 0 THEN @ - 1 ELSE @]
    /\ UNCHANGED <<varsE, varsB, zig, ext>>

\* return result > 0
ReturnD ==
    /\ dom.pc = "count"
    /\ dom.x = 0
    /\ dom' = [dom EXCEPT !.pc = "done", !.ret = (dom.result > 0)]
    /\ UNCHANGED <<varsE, varsB, zig, ext>>

NextD == MapStep \/ MapEnd \/ CountStep \/ ReturnD

SpecDominoes == InitD /\ [][NextD]_vars

\* The tiles with indexes in rest can continue a row whose open end shows the
\* value end: some tile of rest, flipped or not, matches and the others go on.
RECURSIVE CanContinue(_, _, _)
CanContinue(d, rest, end) ==
    \/ rest = {}
    \/ \E i \in rest :
           \/ d[i][1] = end /\ CanContinue(d, rest \ {i}, d[i][2])
           \/ d[i][2] = end /\ CanContinue(d, rest \ {i}, d[i][1])

\* All tiles of d can be placed in one row, each once, possibly flipped, with
\* equal values on touching ends.
CanMakeRow(d) ==
    \E i \in 1..Len(d) :
        \/ CanContinue(d, (1..Len(d)) \ {i}, d[i][2])
        \/ CanContinue(d, (1..Len(d)) \ {i}, d[i][1])

\* C11: for every non-empty list of tiles canDominoesMakeRow returns true
\* exactly when all the tiles can be placed in one row, each used once and
\* possibly flipped, touching ends equal; so it returns false for tiles that
\* split into groups sharing no value.
C11_TrueIffRow == dom.pc = "done" => (dom.ret = CanMakeRow(dom.dominoes))

\* ------------------------------------------------------------ extractRanges
\* The integers of the input lists.
Values == (0 - 2)..MaxNum

\* The elements of a finite set of integers in increasing order.
RECURSIVE Sorted(_)
Sorted(S) ==
    IF S = {} THEN <<>>
    ELSE LET m == CHOOSE v \in S : \A w \in S : v <= w
         IN  <<m>> \o Sorted(S \ {m})

\* Every strictly increasing list over Values.
IncreasingLists == {Sorted(S) : S \in SUBSET Values}

\* Number to string, as string concatenation converts it: decimal digits, a
\* leading '-' for a negative number.
DigitChars == <<"0", "1", "2", "3", "4", "5", "6", "7", "8", "9">>

RECURSIVE Digits(_)
Digits(n) ==
    IF n < 10 THEN <<DigitChars[n + 1]>>
    ELSE Digits(n \div 10) \o <<DigitChars[(n % 10) + 1]>>

NumberToString(n) == IF n < 0 THEN <<"-">> \o Digits(0 - n) ELSE Digits(n)

\* nums[i] is an element (not undefined), i 0-based.
Has(nums, i) == i >= 0 /\ i < Len(nums)

\* A test that takes two consecutive integers for a range.
StartsRange_Pair(nums, i) == Has(nums, i + 1) /\ nums[i + 1] + 1 = nums[i + 2]

\* nums[x]+2 == nums[x+2]; false when nums[x+2] is undefined.
StartsRange(nums, i) == Has(nums, i + 2) /\ nums[i + 1] + 2 = nums[i + 3]

\* while (nums[x]+1 == nums[x+1]) x++;  the value of x when the loop ends.
RECURSIVE WhileConsecutive(_, _)
WhileConsecutive(nums, i) ==
    IF Has(nums, i + 1) /\ nums[i + 1] + 1 = nums[i + 2]
    THEN WhileConsecutive(nums, i + 1)
    ELSE i

InitX ==
    /\ ext \in {[pc |-> "loop", nums |-> l, result |-> <<>>, x |-> 0] :
                   l \in IncreasingLists}
    /\ zig = [pc |-> "idle"]
    /\ dom = [pc |-> "idle"]
    /\ IdleE
    /\ IdleB

\* One turn of the for loop, x++ included.
RangeStep ==
    /\ ext.pc = "loop"
    /\ ext.x < Len(ext.nums)
    /\ LET item == NumberToString(ext.nums[ext.x + 1])
           r1 == ext.result \o (IF ext.result # <<>> THEN <<Comma>> \o item ELSE item)
       IN  IF StartsRange(ext.nums, ext.x)
           THEN LET x2 == WhileConsecutive(ext.nums, ext.x + 1)
                IN  ext' = [ext EXCEPT
                               !.result = r1 \o <<"-">> \o NumberToString(ext.nums[x2 + 1]),
                               !.x = x2 + 1]
           ELSE ext' = [ext EXCEPT !.result = r1, !.x = @ + 1]
    /\ UNCHANGED <<varsE, varsB, zig, dom>>

\* return result
ReturnX ==
    /\ ext.pc = "loop"
    /\ ext.x >= Len(ext.nums)
    /\ ext' = [ext EXCEPT !.pc = "done"]
    /\ UNCHANGED <<varsE, varsB, zig, dom>>

NextX == RangeStep \/ ReturnX

SpecRanges == InitX /\ [][NextX]_vars

\* ---- the expression a list stands for, and the list an expression stands for
\* Length of the maximal run of consecutive integers nums starts with.
RECURSIVE RunLength(_)
RunLength(nums) ==
    IF Len(nums) >= 2 /\ nums[2] = nums[1] + 1 THEN 1 + RunLength(Tail(nums)) ELSE 1

\* The integers of l written one by one, joined by commas.
RECURSIVE Individually(_)
Individually(l) ==
    IF l = <<>> THEN <<>>
    ELSE IF Len(l) = 1 THEN NumberToString(l[1])
    ELSE NumberToString(l[1]) \o <<Comma>> \o Individually(Tail(l))

\* Maximal run by maximal run: 'first-last' for a run of three or more, the
\* integers one by one for a run of one or two.
RECURSIVE RangeExpression(_)
RangeExpression(nums) ==
    IF nums = <<>> THEN <<>>
    ELSE LET k == RunLength(nums)
             run == SubSeq(nums, 1, k)
             item == IF k >= 3
                     THEN NumberToString(run[1]) \o <<"-">> \o NumberToString(run[k])
                     ELSE Individually(run)
             rest == SubSeq(nums, k + 1, Len(nums))
         IN  IF rest = <<>> THEN item ELSE item \o <<Comma>> \o RangeExpression(rest)

IsDigit(c) == \E d \in 1..10 : DigitChars[d] = c

\* t is the decimal writing of an integer.
IsNumber(t) ==
    LET digits == IF t # <<>> /\ t[1] = "-" THEN Tail(t) ELSE t
    IN  digits # <<>> /\ \A k \in 1..Len(digits) : IsDigit(digits[k])

RECURSIVE DigitsValue(_)
DigitsValue(t) ==
    IF t = <<>> THEN 0
    ELSE 10 * DigitsValue(SubSeq(t, 1, Len(t) - 1))
             + ((CHOOSE d \in 1..10 : DigitChars[d] = t[Len(t)]) - 1)

NumberValue(t) == IF t[1] = "-" THEN 0 - DigitsValue(Tail(t)) ELSE DigitsValue(t)

\* The places of the dash of a range 'first-last'.
RangeDashes(t) ==
    {k \in 2..(Len(t) - 1) :
        /\ t[k] = "-"
        /\ IsNumber(SubSeq(t, 1, k - 1))
        /\ IsNumber(SubSeq(t, k + 1, Len(t)))}

\* The integers one item stands for; <<"?">> for text that is no item.
ExpandItem(t) ==
    IF IsNumber(t) THEN <<NumberValue(t)>>
    ELSE IF RangeDashes(t) = {} THEN <<"?">>
    ELSE LET k == CHOOSE d \in RangeDashes(t) : TRUE
             a == NumberValue(SubSeq(t, 1, k - 1))
             b == NumberValue(SubSeq(t, k + 1, Len(t)))
         IN  [i \in 1..(b - a + 1) |-> a + i - 1]

RECURSIVE Concat(_)
Concat(ls) == IF ls = <<>> THEN <<>> ELSE Head(ls) \o Concat(Tail(ls))

\* The list a comma-separated expression expands to.
ExpandExpression(e) ==
    IF e = <<>> THEN <<>>
    ELSE LET items == Split(e)
         IN  Concat([k \in 1..Len(items) |-> ExpandItem(items[k])])

\* C12: for every strictly increasing list, extractRanges returns the
\* comma-separated expression with 'first-last' for every maximal run of three
\* or more consecutive integers and the integers of shorter runs one by one, in
\* input order; expanding the expression gives back the input list.
C12_RangeExpression ==
    ext.pc = "done" =>
        /\ ext.result = RangeExpression(ext.nums)
        /\ ExpandExpression(ext.result) = ext.nums

\* A list with a run of three negative to zero, a run of two and a run of
\* three with a two-digit end has been written as '-2-0,2,3,8-10'.
C12_Witness ==
    /\ ext.pc = "done"
    /\ ext.nums = <<0 - 2, 0 - 1, 0, 2, 3, 8, 9, 10>>
    /\ ext.result = <<"-", "2", "-", "0", ",", "2", ",", "3", ",", "8", "-", "1", "0">>

\* ---------------------------------------------------------- getZigZagMatrix
\* The cells of an n x n matrix, <<row, column>>, 0-based.
Cells(n) == (0..(n - 1)) \X (0..(n - 1))

\* Array.from({length: n}, () => Array.from({length: n})): every cell undefined.
EmptyMatrix(n) == [c \in Cells(n) |-> Undefined]

InitZ ==
    /\ zig \in {[pc |-> "loop", n |-> n, arr |-> EmptyMatrix(n), x |-> 0, y |-> 0,
                 z |-> 0, stray |-> {}] : n \in 1..MaxN}
    /\ dom = [pc |-> "idle"]
    /\ ext = [pc |-> "idle"]
    /\ IdleE
    /\ IdleB

\* The parity test turned round: the path mirrored in the main diagonal.
Advance_Mirrored(n, r, c) ==
    IF (r + c) % 2 # 0
    THEN LET r1 == IF c < n - 1 THEN r ELSE r + 2
             c1 == IF c < n - 1 THEN c + 1 ELSE c
         IN  [x |-> IF r1 > 0 THEN r1 - 1 ELSE r1, y |-> c1]
    ELSE LET r1 == IF r < n - 1 THEN r + 1 ELSE r
             c1 == IF r < n - 1 THEN c ELSE c + 2
         IN  [x |-> r1, y |-> IF c1 > 0 THEN c1 - 1 ELSE c1]

\* The if/else after the write: the next x and y.
Advance(n, r, c) ==
    IF (r + c) % 2 = 0
    THEN LET r1 == IF c < n - 1 THEN r ELSE r + 2
             c1 == IF c < n - 1 THEN c + 1 ELSE c
         IN  [x |-> IF r1 > 0 THEN r1 - 1 ELSE r1, y |-> c1]
    ELSE LET r1 == IF r < n - 1 THEN r + 1 ELSE r
             c1 == IF r < n - 1 THEN c ELSE c + 2
         IN  [x |-> r1, y |-> IF c1 > 0 THEN c1 - 1 ELSE c1]

\* One turn of the for loop: arr[x][y] = z, the move, z++.  With x outside
\* 0..n-1, arr[x] is undefined and the assignment throws; with only y outside,
\* the assignment adds a property to the row, outside the n x n cells.
ZigStep ==
    /\ zig.pc = "loop"
    /\ zig.z < zig.n * zig.n
    /\ IF zig.x \notin 0..(zig.n - 1)
       THEN zig' = [zig EXCEPT !.pc = "TypeError"]
       ELSE LET next == Advance(zig.n, zig.x, zig.y)
            IN  zig' = [zig EXCEPT
                           !.arr = IF zig.y \in 0..(zig.n - 1)
                                   THEN [@ EXCEPT ![<<zig.x, zig.y>>] = <<zig.z>>]
                                   ELSE @,
                           !.stray = IF zig.y \in 0..(zig.n - 1)
                                     THEN @
                                     ELSE @ \cup {<<zig.x, zig.y>>},
                           !.x = next.x,
                           !.y = next.y,
                           !.z = @ + 1]
    /\ UNCHANGED <<varsE, varsB, dom, ext>>

\* return arr
ReturnZ ==
    /\ zig.pc = "loop"
    /\ zig.z >= zig.n * zig.n
    /\ zig' = [zig EXCEPT !.pc = "done"]
    /\ UNCHANGED <<varsE, varsB, dom, ext>>

NextZ == ZigStep \/ ReturnZ

SpecZigZag == InitZ /\ [][NextZ]_vars

\* Cell a comes before cell b on the zigzag path: an earlier anti-diagonal, or
\* the same one and a smaller row on an odd anti-diagonal, a larger row on an
\* even one.
Before(a, b) ==
    \/ a[1] + a[2] < b[1] + b[2]
    \/ /\ a[1] + a[2] = b[1] + b[2]
       /\ IF (a[1] + a[2]) % 2 = 1 THEN a[1] < b[1] ELSE a[1] > b[1]

\* The rank of a cell on the zigzag path of the n x n matrix.
Rank(n, c) == Cardinality({a \in Cells(n) : Before(a, c)})

\* C13: for every n >= 1 every write of getZigZagMatrix(n) goes to a cell
\* inside the n x n matrix that was not written before, the value of a written
\* cell is its rank on the zigzag path (anti-diagonals in order, odd ones by
\* increasing row, even ones by decreasing row), and the matrix returned has
\* every cell written: its entries are a permutation of 0..n*n-1.
C13_ZigZagRanks ==
    zig.pc # "idle" =>
        /\ zig.pc # "TypeError"
        /\ zig.stray = {}
        /\ (zig.pc = "loop" /\ zig.z < zig.n * zig.n) =>
               /\ <<zig.x, zig.y>> \in Cells(zig.n)
               /\ zig.arr[<<zig.x, zig.y>>] = Undefined
        /\ \A c \in Cells(zig.n) :
               zig.arr[c] # Undefined => zig.arr[c] = <<Rank(zig.n, c)>>
        /\ zig.pc = "done" =>
               {zig.arr[c] : c \in Cells(zig.n)} =
                   {<<v>> : v \in 0..(zig.n * zig.n - 1)}

\* The 4 x 4 matrix of the documentation has been returned.
C13_Witness ==
    /\ zig.pc = "done"
    /\ zig.n = 4
    /\ zig.arr[<<0, 3>>] = <<6>>
    /\ zig.arr[<<1, 3>>] = <<12>>
    /\ zig.arr[<<3, 0>>] = <<9>>
    /\ zig.arr[<<3, 3>>] = <<15>>

\* ------------------------------- expandBraces: the scan and the collection
\* C14: each time the scan reaches a '}' in the first candidate, left is the
\* place of the nearest '{' to its left in that candidate, so the text handed
\* to parse is the content of an innermost group of the candidate, and parse
\* builds, for each alternative, the candidate with that group (braces
\* included) replaced by the alternative.  For every candidate, the original
\* input or one taken from the collection after a substitution.
C14_PairsNearestOpen ==
    (pc = "scan" /\ Contains(myArr[1], LB) /\ CharAt(myArr[1], x) = RB) =>
        /\ left < x
        /\ CharAt(myArr[1], left) = LB
        /\ \A k \in (left + 1)..(x - 1) : CharAt(myArr[1], k) \notin {LB, RB}
        /\ LET content == Substring(myArr[1], left + 1, x)
               alts == Split(content)
           IN  Completed(myArr, content) =
                   [k \in 1..Len(alts) |->
                       SubSeq(myArr[1], 1, left) \o alts[k]
                           \o SubSeq(myArr[1], x + 2, Len(myArr[1]))]

\* C15: for every balanced input, whenever the first element of the working
\* collection has no '{', no element of the collection has a brace.
C15_AllResolvedAtExit ==
    (pc \in {"scan", "yield", "done"} /\ ~Contains(myArr[1], LB)) =>
        \A k \in 1..Len(myArr) : NoBraces(myArr[k])

NoDuplicates(arr) == \A i \in 1..Len(arr), j \in 1..Len(arr) : arr[i] = arr[j] => i = j

\* C16: the working collection never holds a string twice, and so neither does
\* the output; a substitution step removes the first candidate and leaves the
\* collection with exactly the strings it had plus the variants produced: a
\* variant is suppressed only when it is there already.
C16_NoDuplicates ==
    /\ pc # "idle" => NoDuplicates(myArr) /\ NoDuplicates(out)
    /\ (pc = "scan" /\ Contains(myArr[1], LB) /\ CharAt(myArr[1], x) = RB) =>
           LET string == Substring(myArr[1], left + 1, x)
               after == Parse(myArr, string)
           IN  /\ NoDuplicates(after)
               /\ Range(after) = Range(Tail(myArr)) \cup Range(Completed(myArr, string))

\* '{a,a}' has been expanded: its two equal alternatives produced 'a' twice,
\* and 'a' was kept and yielded once.
C16_Witness ==
    /\ pc = "done"
    /\ str = <<"{", "a", ",", "a", "}">>
    /\ out = <<<<"a">>>>

\* ------------------------------------- selector builder: tokens and failures
\* C17: the uniqueness and ordering rules depend on which fields have been
\* set, not on the token values, the empty string included: on every fragment
\* a call of element, id or pseudoElement whose field was set before throws
\* the duplicate error, any other call throws the out-of-order error when a
\* later category was set before, and succeeds otherwise.
C17_RulesForEveryToken ==
    \A i \in Fragments :
        \A op \in SetterOps, v \in Tokens :
            IF op \in Singletons /\ Vals(hist[i], op) # <<>>
            THEN Method(op, objs[i], v) = Thrown(objs[i], err_E)
            ELSE IF LaterSet(hist[i], op)
            THEN Method(op, objs[i], v) = Thrown(objs[i], err_S)
            ELSE Method(op, objs[i], v).result = "ok"

\* C18: a builder call that fails, as a duplicate or as out of order, leaves
\* the fragment as it was: every field and every list, and so the string
\* stringify returns, are after the failed call what they were before it.
C18_FailedCallChangesNothing ==
    [][(last'.via = "chain" /\ last'.result \in {err_E, err_S}) =>
           /\ objs' = objs
           /\ Stringify(objs'[last'.obj]) = Stringify(objs[last'.obj])
      ]_vars

\* id() has just thrown the out-of-order error on a fragment built by
\* element('a') and class('b'): the fragment has no id and renders 'a.b'.
C18_Witness ==
    /\ last.via = "chain"
    /\ last.op = "id"
    /\ last.result = err_S
    /\ hist[last.obj] = <<[op |-> "element", arg |-> "a"], [op |-> "class", arg |-> "b"]>>
    /\ objs[last.obj] = [EmptySelector EXCEPT !.elementName = <<"a">>, !.className = <<"b">>]
    /\ Stringify(objs[last.obj]) = "a.b"

\* C19: a combined unit is a snapshot taken at combine time: no later call,
\* on its operands or on anything else, changes the string its stringify
\* returns; and combine leaves both of its operands as they were.
C19_CombinedIsSnapshot ==
    [][/\ \A g \in Groups :
              /\ g <= Len(objs')
              /\ objs'[g].kind = "PropertyGroup"
              /\ Stringify(objs'[g]) = Stringify(objs[g])
       /\ (last'.via = "combine" /\ Len(objs') = Len(objs) + 1) =>
              /\ objs'[last'.a] = objs[last'.a]
              /\ objs'[last'.b] = objs[last'.b]
      ]_vars

\* element('a') was combined with itself, then given a pseudo-element: the
\* fragment renders 'a::b', the combined unit still 'a + a'.
C19_Witness ==
    /\ Len(objs) = 2
    /\ last.via = "chain"
    /\ last.op = "pseudoElement"
    /\ last.obj = 1
    /\ last.result = "ok"
    /\ Stringify(objs[1]) = "a::b"
    /\ objs[2] = PropertyGroup("a + a")

====
